---- MODULE Spec2Model ----
(***************************************************************************)
(* A state-machine model of garden's event/log forwarding:                *)
(* BufferedEventStream (core/src/enterprise/buffered-event-stream.ts) and  *)
(* GardenServer (src/unnamed/part_002).  The two objects do not call      *)
(* each other; each has a specification of its own (Spec, ServerSpec) in   *)
(* which the other object stays as constructed.                            *)
(*                                                                         *)
(* One action per method or callback.  Every action is one run-to-        *)
(* completion turn of the Node event loop: the synchronous part of a      *)
(* method (up to and including the calls that start its HTTP requests) is *)
(* one step, and the settling of each HTTP request is a step of its own.  *)
(***************************************************************************)
EXTENDS Integers, Sequences, FiniteSets, TLC

(***************************************************************************)
(* Bounds of the model.                                                    *)
(***************************************************************************)
\* Number of events and log entries recorded in one behaviour of the "core"
\* scope, and of the wider scopes (see Scopes below).
MaxItems == 3
MaxItemsWide == 2
\* BufferedEventStream.maxBatchSize (100 in the source, a protected field
\* that subclasses override); scaled down so that buffers longer than one
\* batch are reached.
maxBatchSize == 2
\* GardenServer: socket messages received, HTTP requests handled and events
\* published, in one behaviour.
MaxMessages == 2
MaxHttp == 2
MaxPublished == 2
MaxReleases == 2

(***************************************************************************)
(* Values.                                                                 *)
(***************************************************************************)
NoGarden == "noGarden"            \* this.garden === undefined
Gardens == {"gA", "gB"}           \* Garden instances, each with its own bus
NoTimer == 0                      \* this.intervalId null / undefined
NoUid == "noUid"                  \* undefined workflowRunUid
Uids == {"u1", "u2"}              \* workflow run ids carried by control events
Undefined == <<"undefined">>      \* the targets parameter left out (no list of hosts)
SessionIds == {"s1", "s2"}
Hosts == {"t1", "t2"}             \* StreamTarget hosts
Paths == {"events", "log-entries"}
\* Target lists a caller passes to connect (arrays of StreamTarget, by host).
TargetLists == {<<>>, <<"t1">>, <<"t1", "t2">>}
EnvUids == {NoUid, "uEnv"}        \* values of GARDEN_WORKFLOW_RUN_UID
\* The names of ../events (eventNames): one ordinary name and the control name.
eventNames == {"taskComplete", "_workflowRunRegistered"}
controlEventNames == {"_workflowRunRegistered"}

\* GardenServer
SocketIds == {1, 2}               \* socket connections, in the order they are opened
None == "none"                    \* a field that is not there
notReadyMessage == "Waiting for Garden instance to initialize"
authKey == "authKey"              \* this.authKey, randomString(64)
\* Values of the auth token header of a request; None: no such header.
Credentials == {authKey, "otherKey", None}
\* The last HTTP response: none yet.
NoResponse == [route |-> None, status |-> 0, body |-> None, garden |-> None]
\* The events published on a bus: a name and a payload.
ServerEvents == {[name |-> "taskComplete", payload |-> "p1"],
                 [name |-> "_workflowRunRegistered", payload |-> "p2"]}
\* ApiEventBatch.events
Batches == {<<e>> : e \in ServerEvents} \cup {<<e1, e2>> : e1, e2 \in ServerEvents} \cup {<<>>}
\* Bodies of POST /events: a batch, or a body that has no events array.
Bodies == {[isBatch |-> TRUE, events |-> b] : b \in Batches}
              \cup {[isBatch |-> FALSE, events |-> <<>>]}
\* The id field of a socket request: absent, not a UUID, or a UUID.
Uuids == {"uuid1", "uuid2"}
RequestIds == {None, "notUuid"} \cup Uuids
\* The type field: absent (or not a non-empty string), "command", or another string.
\* type: absent, present but not a string, "command", or another string.
RequestTypes == {None, "notString", "command", "status"}
\* Socket messages: text that is not JSON, the JSON text null, and JSON values
\* with the fields id and type (a value without fields has both absent).
Requests ==
    {[json |-> j, id |-> None, type |-> None] : j \in {"garbage", "null"}}
        \cup {[json |-> "value", id |-> i, type |-> t] : i \in RequestIds, t \in RequestTypes}
\* How resolveRequest ends: a result without errors, a result with errors (the
\* command failed gracefully), or a rejection.
CommandOutcomes == {"ok", "failed", "thrown"}

\* Ports: the default one of the server, the default one of the dashboard command
\* and another one; NoPort is an absent (falsy) port.
defaultWatchServerPort == 9777
defaultDashboardPort == 9700
OtherPorts == {defaultDashboardPort, 8080}
Ports == {defaultWatchServerPort} \cup OtherPorts
NoPort == 0

(***************************************************************************)
(* The environment of the stream is explored one scope at a time: every    *)
(* scope has all the operations, and widens one dimension of the inputs    *)
(* while the others stay at their smallest interesting size.               *)
(*   core     one orchestrator, lists of no or one target, the larger item *)
(*            count                                                        *)
(*   fanout   lists of no or two targets                                   *)
(*   gardens  two orchestrators, connected in any order                    *)
(*   control  control events and GARDEN_WORKFLOW_RUN_UID                   *)
(* In every scope connect() may also be called without a list, and the     *)
(* stream starts with no targets.                                          *)
(***************************************************************************)
Scopes == {"core", "fanout", "gardens", "control"}

ScopeGardens(sc) == IF sc = "gardens" THEN Gardens ELSE {"gA"}

ScopeTargetLists(sc) ==
    IF sc = "fanout" THEN {<<>>, <<"t1", "t2">>}
    ELSE IF sc = "core" THEN {<<>>, <<"t1">>}
    ELSE {<<"t1">>}

ScopeEventNames(sc) == IF sc = "control" THEN eventNames ELSE eventNames \ controlEventNames

ScopeEnvUids(sc) == IF sc = "control" THEN EnvUids ELSE {NoUid}

ScopeMaxItems(sc) == IF sc = "core" THEN MaxItems ELSE MaxItemsWide

ScopeSessionIds(sc) == IF sc = "control" THEN SessionIds ELSE {"s1"}

(***************************************************************************)
(* The environment of the server is explored one scope at a time as well.  *)
(* A scope allows the inputs of one kind up to their bound:                *)
(*   protocol  socket requests, on two connections, one orchestrator       *)
(*   events    events published on the buses of two orchestrators or      *)
(*             posted to /events in one request, two connections           *)
(*   http      HTTP requests, two orchestrators, one connection            *)
(*   mixed     one input of every kind, one orchestrator, one connection   *)
(***************************************************************************)
ServerScopes == {"protocol", "events", "http", "mixed"}

\* The scope of the behaviours of start() with its ports.
StartScope == "ports"

ScopeMaxMessages(sc) == IF sc = "protocol" THEN MaxMessages ELSE IF sc = "mixed" THEN 1 ELSE 0

ScopeMaxPublished(sc) == IF sc = "events" THEN MaxPublished ELSE IF sc = "mixed" THEN 1 ELSE 0

ScopeMaxHttp(sc) ==
    IF sc = "http" THEN MaxHttp
    ELSE IF sc \in {"events", "mixed"} THEN 1 ELSE 0

\* POST /api requests among the HTTP requests.
ScopeMaxApi(sc) == IF sc = "events" THEN 0 ELSE ScopeMaxHttp(sc)

ScopeSocketIds(sc) == IF sc \in {"http", "mixed"} THEN {1} ELSE SocketIds

ScopeServerGardens(sc) == IF sc \in {"protocol", "mixed"} THEN {"gA"} ELSE Gardens

VARIABLES
    scope,                  \* the scope of the environment, fixed for a behaviour
    sessionId,              \* this.sessionId
    targets,                \* this.targets: sequence of hosts
    garden,                 \* this.garden
    workflowRunUid,         \* this.workflowRunUid
    envWorkflowRunUid,      \* gardenEnv.GARDEN_WORKFLOW_RUN_UID, fixed for the process
    gardenEventListeners,   \* this.gardenEventListeners: event name -> listener
    intervalId,             \* this.intervalId
    bufferedEvents,         \* this.bufferedEvents
    bufferedLogEntries,     \* this.bufferedLogEntries
    busListeners,           \* per Garden, per event name: the listeners on garden.events
    activeTimers,           \* the interval timers of the process that are not cleared
    inflight,               \* the got.post requests that have not settled yet
    sent,                   \* per host and path: the ids posted to it so far, in order
    pendingCloses,          \* the close() calls that have not returned yet
    nextId,                 \* identity of the next recorded payload
    afterClose              \* the calls since the latest connect():
                            \* "none": no close(); "quiet": one close() and nothing
                            \* after it; "quiet2": close() calls only, the latest
                            \* right after another; "recorded": records after a close()

vars == <<scope, sessionId, targets, garden, workflowRunUid, envWorkflowRunUid, gardenEventListeners, intervalId,
          bufferedEvents, bufferedLogEntries, busListeners, activeTimers, inflight, sent,
          pendingCloses, nextId, afterClose>>

VARIABLES
    server,                 \* this.server: "none", "listening", "closed", or "failed"
                            \* when listen() reported that the port is in use
    serverGarden,           \* GardenServer.garden
    analytics,              \* this.analytics is set
    serversUpdatedOn,       \* per Garden: registrations of serversUpdatedListener
    gardenAnyListeners,     \* per Garden: the onAny listeners of sockets, by socket
    incomingAnyListeners,   \* the onAny listeners on this.incomingEvents, by socket
    sockets,                \* per socket: [state, handlers, bus]: whether it is open,
                            \* whether its listener and handlers were set up, and the
                            \* orchestrator whose bus the listener was registered on
    received,               \* per socket: messages the client has sent on it
    outbox,                 \* per socket: the messages sent on it, in order
    sendErrors,             \* per socket: sends that failed (logged by send)
    pending,                \* commands and analytics initialisations under way, each with
                            \* the field names of the descriptor given to resolveRequest
    httpCount,              \* HTTP requests handled so far
    httpResponse,           \* the latest HTTP response
    published,              \* events published so far
    argPort,                \* the port option given to startServer
    envPort,                \* gardenEnv.GARDEN_SERVER_PORT
    port,                   \* this.port
    taken,                  \* the ports other processes are bound to
    startPc,                \* where start() is: "idle", "probed" (getPort resolved), "done"
    dashPc                  \* DashboardCommand: "none" (no such command), "prepare",
                            \* "action" (prepare has returned), "loop" (action sleeps)

startVars == <<argPort, envPort, port, taken, startPc>>

serverVars == <<server, serverGarden, analytics, serversUpdatedOn, gardenAnyListeners,
                incomingAnyListeners, sockets, received, outbox, sendErrors, pending,
                httpCount, httpResponse, published, startVars, dashPc>>

VARIABLES
    migPc,                  \* where migrateToHelm3 is: "none" (not called), "listTiller",
                            \* "listHelm3", "plugin", "convert", "remove", "done", or
                            \* "failed" when it has thrown
    tillerList,             \* the releases Tiller holds, as helm (version 2) lists them
    helm3List,              \* the names of the releases Helm 3 holds at the call
    res,                    \* res: the outcome of the Tiller listing
    tillerReleaseNames,     \* tillerReleaseNames
    helm3ReleaseNames,      \* helm3ReleaseNames
    releaseIndex,           \* position of the for loop in tillerReleaseNames
    converted,              \* the releases given to helm 2to3 convert, in order
    tillerRemoved           \* removeTiller has deleted the Tiller resources

migrateVars == <<migPc, tillerList, helm3List, res, tillerReleaseNames, helm3ReleaseNames,
                 releaseIndex, converted, tillerRemoved>>

allVars == <<vars, serverVars, migrateVars>>

(***************************************************************************)
(* Helpers.                                                                *)
(***************************************************************************)
Range(s) == {s[i] : i \in 1..Len(s)}

Min(a, b) == IF a < b THEN a ELSE b

Max(a, b) == IF a < b THEN b ELSE a

\* The ids of a sequence of items.
Ids(s) == [i \in 1..Len(s) |-> s[i].id]

StrictlyIncreasing(s) == \A i \in 1..(Len(s) - 1) : s[i] < s[i + 1]

RECURSIVE Remove(_, _)
\* EventEmitter.removeListener: removes one registration of the listener.
Remove(s, x) ==
    IF Len(s) = 0 THEN <<>>
    ELSE IF Head(s) = x THEN Tail(s)
    ELSE <<Head(s)>> \o Remove(Tail(s), x)

\* Array.prototype.splice(0, count): deleteCount is clamped to [0, length].
SpliceCount(arr, count) == Min(Max(count, 0), Len(arr))

\* Mutant: the removed items are taken from the back (arr.slice(-count)).
SpliceRemovedFromBack(arr, count) ==
    SubSeq(arr, Len(arr) - SpliceCount(arr, count) + 1, Len(arr))

\* The items splice returns.
SpliceRemoved(arr, count) == SubSeq(arr, 1, SpliceCount(arr, count))

\* Mutant: slice instead of splice, the array keeps its items.
SpliceRestKeepsAll(arr, count) == arr

\* Mutant: the last item splice returns stays in the array as well.
SpliceRestKeepsLast(arr, count) ==
    SubSeq(arr, Max(SpliceCount(arr, count), 1), Len(arr))

\* The items splice leaves in the array.
SpliceRest(arr, count) == SubSeq(arr, SpliceCount(arr, count) + 1, Len(arr))

\* startServer: the port option, or else GARDEN_SERVER_PORT, or else none.
ExplicitPort == IF argPort # NoPort THEN argPort ELSE envPort

\* No port is asked for and no other process holds one.
DefaultEnvironment ==
    /\ argPort = NoPort
    /\ envPort = NoPort
    /\ taken = {}

\* migrateToHelm3 is not called.
MigrateIdle ==
    /\ migPc = "none"
    /\ tillerList = <<>>
    /\ helm3List = {}
    /\ res = "undefined"
    /\ tillerReleaseNames = <<>>
    /\ helm3ReleaseNames = {}
    /\ releaseIndex = 1
    /\ converted = <<>>
    /\ tillerRemoved = FALSE

\* GardenServer after its constructor: no orchestrator, no http server yet, an
\* inbound bus without listeners.
ServerConstructed ==
    /\ server = "none"
    /\ port = ExplicitPort
    /\ startPc = "idle"
    /\ serverGarden = NoGarden
    /\ analytics = FALSE
    /\ serversUpdatedOn = [g \in Gardens |-> 0]
    /\ gardenAnyListeners = [g \in Gardens |-> <<>>]
    /\ incomingAnyListeners = <<>>
    /\ sockets = [s \in SocketIds |-> [state |-> "none", handlers |-> FALSE, bus |-> NoGarden]]
    /\ received = [s \in SocketIds |-> 0]
    /\ outbox = [s \in SocketIds |-> <<>>]
    /\ sendErrors = [s \in SocketIds |-> 0]
    /\ pending = {}
    /\ httpCount = 0
    /\ httpResponse = NoResponse
    /\ published = 0

(***************************************************************************)
(* Initial state: after the constructor.                                   *)
(***************************************************************************)
\* Both objects after their constructors, in the scope chosen for the behaviour.
Constructed ==
    /\ sessionId \in ScopeSessionIds(scope)
    /\ targets = <<>>
    /\ garden = NoGarden
    /\ workflowRunUid = NoUid
    /\ envWorkflowRunUid \in ScopeEnvUids(scope)
    /\ gardenEventListeners = [n \in {} |-> 0]
    /\ intervalId = NoTimer
    /\ bufferedEvents = <<>>
    /\ bufferedLogEntries = <<>>
    /\ busListeners = [g \in Gardens |-> [n \in eventNames |-> <<>>]]
    /\ activeTimers = {}
    /\ inflight = {}
    /\ sent = [h \in Hosts |-> [p \in Paths |-> <<>>]]
    /\ pendingCloses = {}
    /\ nextId = 1
    /\ afterClose = "none"
    /\ ServerConstructed

Init ==
    /\ scope \in Scopes
    /\ DefaultEnvironment
    /\ dashPc = "none"
    /\ MigrateIdle
    /\ Constructed

(***************************************************************************)
(* connect({ garden, targets })                                            *)
(***************************************************************************)
\* if (this.intervalId) { clearInterval(this.intervalId) }
ConnectClearInterval ==
    IF intervalId # NoTimer THEN activeTimers \ {intervalId} ELSE activeTimers

\* Mutant: the supplied targets are added to the configured ones.
ConnectTargetsMerged(ts) == IF ts # Undefined THEN targets \o ts ELSE targets

\* if (targets) { this.targets = targets }
ConnectTargets(ts) == IF ts # Undefined THEN ts ELSE targets

\* Mutant: the listeners stay on the previous bus.
UnsubscribeNothing(ls, g) == ls

\* unsubscribeFromGardenEvents(eventBus): removeListener for every entry of
\* this.gardenEventListeners.
UnsubscribeFromGardenEvents(ls, g) ==
    [ls EXCEPT ![g] =
        [n \in eventNames |->
            IF n \in DOMAIN gardenEventListeners
            THEN Remove(ls[g][n], gardenEventListeners[n])
            ELSE ls[g][n]]]

\* A listener closure that is not registered anywhere and not held by the stream.
FreshListener ==
    LET used == UNION {Range(busListeners[g][n]) : g \in Gardens, n \in eventNames}
    IN  CHOOSE l \in 1..(Cardinality(used) + 1) : l \notin used

\* subscribeToGardenEvents(eventBus): one new listener, registered for every name.
SubscribeToGardenEvents(ls, g, l) ==
    [ls EXCEPT ![g] = [n \in eventNames |-> Append(ls[g][n], l)]]

\* setInterval: a timer object that is not active.
FreshTimer(timers) == CHOOSE t \in 1..(Cardinality(timers) + 1) : t \notin timers

Connect(g, ts) ==
    LET cleared == ConnectClearInterval
        unsub == IF garden # NoGarden
                 THEN UnsubscribeFromGardenEvents(busListeners, garden)
                 ELSE busListeners
        l == FreshListener
        t == FreshTimer(cleared)
    IN  /\ UNCHANGED <<scope, sessionId, workflowRunUid, envWorkflowRunUid, bufferedEvents,
                       bufferedLogEntries, inflight, sent, pendingCloses, nextId>>
        /\ afterClose' = "none"
        /\ targets' = ConnectTargets(ts)
        /\ garden' = g
        /\ busListeners' = SubscribeToGardenEvents(unsub, g, l)
        /\ gardenEventListeners' = [n \in eventNames |-> l]
        /\ intervalId' = t
        /\ activeTimers' = cleared \cup {t}

(***************************************************************************)
(* streamEvent / streamLogEntry and the buses that call them               *)
(***************************************************************************)
\* Mutant: a control event is handled and buffered as well.
StreamEventBuffersControl(buf, uid, name, payload) ==
    IF name \in controlEventNames
    THEN <<Append(buf, [id |-> 0, name |-> name, bus |-> "control"]), payload.workflowRunUid>>
    ELSE <<Append(buf, payload), uid>>

\* streamEvent(name, payload) on the buffer buf and the scalar uid: <<buf, uid>>.
StreamEvent(buf, uid, name, payload) ==
    IF name \in controlEventNames
    THEN <<buf, IF name = "_workflowRunRegistered" THEN payload.workflowRunUid ELSE uid>>
    ELSE <<Append(buf, payload), uid>>

RECURSIVE Dispatch(_, _, _, _)
\* The bus calls its listeners for the name one after the other; each listener of
\* the stream calls streamEvent(name, payload).
Dispatch(ls, st, name, payload) ==
    IF Len(ls) = 0 THEN st
    ELSE Dispatch(Tail(ls), StreamEvent(st[1], st[2], name, payload), name, payload)

\* The orchestrator g publishes an event on its bus.
Emit(g, name, uid) ==
    LET payload == IF name \in controlEventNames
                   THEN [workflowRunUid |-> uid]
                   ELSE [id |-> nextId, name |-> name, bus |-> g]
        st == Dispatch(busListeners[g][name], <<bufferedEvents, workflowRunUid>>,
                       name, payload)
    IN  /\ name \in controlEventNames \/ nextId <= ScopeMaxItems(scope)
        /\ bufferedEvents' = st[1]
        /\ workflowRunUid' = st[2]
        /\ nextId' = IF name \in controlEventNames \/ Len(busListeners[g][name]) = 0
                     THEN nextId ELSE nextId + 1
        /\ afterClose' = IF afterClose \in {"quiet", "quiet2"} /\ st[1] # bufferedEvents
                         THEN "recorded" ELSE afterClose
        /\ UNCHANGED <<scope, sessionId, targets, garden, envWorkflowRunUid, gardenEventListeners,
                       intervalId, bufferedLogEntries, busListeners, activeTimers, inflight,
                       sent, pendingCloses>>

\* Mutant: the log entry is put at the head of the buffer.
StreamLogEntryAtFront(buf, logEntry) == <<logEntry>> \o buf

\* streamLogEntry(logEntry)
StreamLogEntry(buf, logEntry) == Append(buf, logEntry)

\* The logger emits a line; the onAny listener of the constructor records it.
LogEmit ==
    /\ nextId <= ScopeMaxItems(scope)
    /\ bufferedLogEntries' =
           StreamLogEntry(bufferedLogEntries, [id |-> nextId, name |-> "logEntry", bus |-> "log"])
    /\ nextId' = nextId + 1
    /\ afterClose' = IF afterClose \in {"quiet", "quiet2"} THEN "recorded" ELSE afterClose
    /\ UNCHANGED <<scope, sessionId, targets, garden, workflowRunUid, envWorkflowRunUid,
                   gardenEventListeners, intervalId, bufferedEvents, busListeners,
                   activeTimers, inflight, sent, pendingCloses>>

(***************************************************************************)
(* flushBuffered and what it calls                                         *)
(***************************************************************************)
\* Mutant: the registered id is never read.
GetWorkflowRunUidEnvOnly == envWorkflowRunUid

\* getWorkflowRunUid()
GetWorkflowRunUid == IF envWorkflowRunUid # NoUid THEN envWorkflowRunUid ELSE workflowRunUid

\* Mutant: only the first target is posted to.
PostToFirstTarget(path, data, call) ==
    {[host |-> targets[i], path |-> path, data |-> data, call |-> call] :
        i \in 1..Min(1, Len(targets))}

\* postToTargets(description, path, data): Bluebird.map starts one got.post per
\* target, all of them before any of them settles.  call is 0 for a periodic
\* flush and the number of the close() call for a final flush.
PostToTargets(path, data, call) ==
    {[host |-> targets[i], path |-> path, data |-> data, call |-> call] : i \in 1..Len(targets)}

\* Mutant: no early return for an empty batch.
FlushEventsAlways(events, call) ==
    PostToTargets("events",
                  [items |-> events, workflowRunUid |-> GetWorkflowRunUid,
                   sessionId |-> sessionId, garden |-> garden],
                  call)

\* flushEvents(events)
FlushEvents(events, call) ==
    IF Len(events) = 0 THEN {}
    ELSE PostToTargets("events",
                       [items |-> events, workflowRunUid |-> GetWorkflowRunUid,
                        sessionId |-> sessionId, garden |-> garden],
                       call)

\* Mutant: no early return for an empty batch of log entries.
FlushLogEntriesAlways(logEntries, call) ==
    IF garden = NoGarden THEN {}
    ELSE PostToTargets("log-entries",
                       [items |-> logEntries, workflowRunUid |-> GetWorkflowRunUid,
                        sessionId |-> sessionId, garden |-> garden],
                       call)

\* Mutant: every log-entry batch carries the same fixed session id.
FlushLogEntriesFixedSession(logEntries, call) ==
    IF Len(logEntries) = 0 \/ garden = NoGarden THEN {}
    ELSE PostToTargets("log-entries",
                       [items |-> logEntries, workflowRunUid |-> GetWorkflowRunUid,
                        sessionId |-> "s1", garden |-> garden],
                       call)

\* flushLogEntries(logEntries)
FlushLogEntries(logEntries, call) ==
    IF Len(logEntries) = 0 \/ garden = NoGarden THEN {}
    ELSE PostToTargets("log-entries",
                       [items |-> logEntries, workflowRunUid |-> GetWorkflowRunUid,
                        sessionId |-> sessionId, garden |-> garden],
                       call)

\* The deleteCount of the two splice calls.
EventFlushCount(flushAll) == IF flushAll THEN Len(bufferedEvents) ELSE maxBatchSize

LogEntryFlushCount(flushAll) ==
    IF flushAll THEN Len(bufferedLogEntries) ELSE maxBatchSize - Len(bufferedLogEntries)

\* Mutant: flushBuffered returns early only without an orchestrator.
FlushGuardGardenOnly == garden = NoGarden

\* The early return of flushBuffered.
FlushGuard == garden = NoGarden \/ Len(targets) = 0

\* The requests flushBuffered starts.
FlushPosts(flushAll, call) ==
    IF FlushGuard THEN {}
    ELSE FlushEvents(SpliceRemoved(bufferedEvents, EventFlushCount(flushAll)), call)
         \cup FlushLogEntries(SpliceRemoved(bufferedLogEntries, LogEntryFlushCount(flushAll)), call)

\* What the targets have been sent, once the requests rs are started as well.
SentAfter(rs) ==
    [h \in Hosts |-> [p \in Paths |->
        IF \E r \in rs : r.host = h /\ r.path = p
        THEN sent[h][p] \o Ids((CHOOSE r \in rs : r.host = h /\ r.path = p).data.items)
        ELSE sent[h][p]]]

\* flushBuffered({ flushAll })
FlushBuffered(flushAll, call) ==
    /\ bufferedEvents' = IF FlushGuard THEN bufferedEvents
                         ELSE SpliceRest(bufferedEvents, EventFlushCount(flushAll))
    /\ bufferedLogEntries' = IF FlushGuard THEN bufferedLogEntries
                             ELSE SpliceRest(bufferedLogEntries, LogEntryFlushCount(flushAll))
    /\ inflight' = inflight \cup FlushPosts(flushAll, call)
    /\ sent' = SentAfter(FlushPosts(flushAll, call))

\* The setInterval callback of startInterval, for an active timer.
Tick(t) ==
    /\ t \in activeTimers
    /\ FlushBuffered(FALSE, 0)
    /\ UNCHANGED <<scope, sessionId, targets, garden, workflowRunUid, envWorkflowRunUid,
                   gardenEventListeners, intervalId, busListeners, activeTimers,
                   pendingCloses, nextId, afterClose>>

(***************************************************************************)
(* close()                                                                 *)
(***************************************************************************)
\* Mutant: the timer is not cleared.
CloseKeepsInterval == activeTimers

\* if (this.intervalId) { clearInterval(this.intervalId); this.intervalId = null }
CloseClearInterval ==
    IF intervalId # NoTimer THEN activeTimers \ {intervalId} ELSE activeTimers

\* A number for a close() call that no pending call and no request carries.
FreshCall ==
    LET used == pendingCloses \cup {r.call : r \in inflight}
    IN  CHOOSE c \in 1..(Cardinality(used) + 1) : c \notin used

\* close() up to its await: it returns at once when the final flush started no
\* request, and otherwise waits for the promise of flushBuffered.
Close ==
    LET c == FreshCall
    IN  /\ activeTimers' = CloseClearInterval
        /\ intervalId' = NoTimer
        /\ FlushBuffered(TRUE, c)
        /\ pendingCloses' = IF FlushPosts(TRUE, c) = {} THEN pendingCloses
                            ELSE pendingCloses \cup {c}
        /\ afterClose' = IF afterClose \in {"quiet", "quiet2"} THEN "quiet2" ELSE "quiet"
        /\ UNCHANGED <<scope, sessionId, targets, garden, workflowRunUid, envWorkflowRunUid,
                       gardenEventListeners, busListeners, nextId>>

(***************************************************************************)
(* The requests settle                                                     *)
(***************************************************************************)
\* Bluebird.map and Bluebird.all fulfil when every request of the flush has
\* fulfilled; the await of close() then returns.
ClosesAfterOk(r) ==
    IF \E q \in inflight \ {r} : q.call = r.call
    THEN pendingCloses ELSE pendingCloses \ {r.call}

\* Bluebird.map and Bluebird.all reject with the first rejection; close() catches
\* it, logs it and returns.
ClosesAfterFailed(r) == pendingCloses \ {r.call}

\* A request is answered with a success status.
PostOk(r) ==
    /\ r \in inflight
    /\ inflight' = inflight \ {r}
    /\ pendingCloses' = ClosesAfterOk(r)
    /\ UNCHANGED <<scope, sessionId, targets, garden, workflowRunUid, envWorkflowRunUid,
                   gardenEventListeners, intervalId, bufferedEvents, bufferedLogEntries,
                   busListeners, activeTimers, sent, nextId, afterClose>>

\* A request fails (the target is unreachable or rejects the batch); the error
\* only reaches the catch of startInterval or of close(), which log it.
PostFailed(r) ==
    /\ r \in inflight
    /\ inflight' = inflight \ {r}
    /\ pendingCloses' = ClosesAfterFailed(r)
    /\ UNCHANGED <<scope, sessionId, targets, garden, workflowRunUid, envWorkflowRunUid,
                   gardenEventListeners, intervalId, bufferedEvents, bufferedLogEntries,
                   busListeners, activeTimers, sent, nextId, afterClose>>

(***************************************************************************)
(* Specifications                                                          *)
(***************************************************************************)
Next ==
    \/ \E g \in ScopeGardens(scope), ts \in ScopeTargetLists(scope) \cup {Undefined} :
           Connect(g, ts) /\ UNCHANGED <<serverVars, migrateVars>>
    \/ \E g \in ScopeGardens(scope), name \in ScopeEventNames(scope), uid \in Uids :
           Emit(g, name, uid) /\ UNCHANGED <<serverVars, migrateVars>>
    \/ LogEmit /\ UNCHANGED <<serverVars, migrateVars>>
    \/ \E t \in activeTimers : Tick(t) /\ UNCHANGED <<serverVars, migrateVars>>
    \/ Close /\ UNCHANGED <<serverVars, migrateVars>>
    \/ \E r \in inflight : PostOk(r) /\ UNCHANGED <<serverVars, migrateVars>>
    \/ \E r \in inflight : PostFailed(r) /\ UNCHANGED <<serverVars, migrateVars>>

Spec == Init /\ [][Next]_allVars

\* setInterval keeps calling back while the timer is active: a tick that can
\* take something from a buffer eventually happens.
TimerFires == \E t \in activeTimers : Tick(t) /\ UNCHANGED <<serverVars, migrateVars>>

FairSpec == Init /\ [][Next]_allVars /\ WF_allVars(TimerFires)

(***************************************************************************)
(* GardenServer (src/unnamed/part_002)                                     *)
(*                                                                         *)
(* One action per method, route handler, socket handler or promise         *)
(* callback.  The fields garden of a message and of an HTTP response say   *)
(* which bus published the event or which orchestrator ran the command;    *)
(* they are not part of what goes over the wire.                           *)
(***************************************************************************)
ErrorMessage(requestId, message) ==
    [type |-> "error", requestId |-> requestId, message |-> message, name |-> None,
     payload |-> None, result |-> None, errors |-> None, garden |-> None]

CommandResultMessage(requestId, result, errors, g) ==
    [type |-> "commandResult", requestId |-> requestId, message |-> None, name |-> None,
     payload |-> None, result |-> result, errors |-> errors, garden |-> g]

EventMessage(e, g) ==
    [type |-> "event", requestId |-> None, message |-> None, name |-> e.name,
     payload |-> e.payload, result |-> None, errors |-> None, garden |-> g]

\* Mutant: every message is also sent on the other open connections.
SendToAll(st, s, msg) ==
    IF sockets[s].state = "open"
    THEN <<[t \in SocketIds |->
               IF sockets[t].state = "open" THEN Append(st[1][t], msg) ELSE st[1][t]],
           st[2]>>
    ELSE <<st[1], [st[2] EXCEPT ![s] = @ + 1]>>

\* send(type, payload) of the connection s, on the pair st = <<outbox, sendErrors>>:
\* websocket.send, whose callback logs the error of a socket that is not open.
Send(st, s, msg) ==
    IF sockets[s].state = "open"
    THEN <<[st[1] EXCEPT ![s] = Append(@, msg)], st[2]>>
    ELSE <<st[1], [st[2] EXCEPT ![s] = @ + 1]>>

\* A bus that calls only the listener registered first.
EmitAnyFirstOnly(ls, st, msg) ==
    IF ls = <<>> THEN st ELSE Send(st, Head(ls), msg)

RECURSIVE EmitAny(_, _, _)
\* EventBus.emit: the onAny listeners ls are called in registration order; the
\* listener of a connection sends the event on it.
EmitAny(ls, st, msg) ==
    IF Len(ls) = 0 THEN st
    ELSE EmitAny(Tail(ls), Send(st, Head(ls), msg), msg)

RECURSIVE EmitBatch(_, _)
\* batch.events.forEach((e) => this.incomingEvents.emit(e.name, e.payload))
EmitBatch(events, st) ==
    IF Len(events) = 0 THEN st
    ELSE EmitBatch(Tail(events),
                   EmitAny(incomingAnyListeners, st, EventMessage(Head(events), "incoming")))

\* A call number that no pending call has.
FreshPending ==
    LET used == {c.call : c \in pending}
    IN  CHOOSE n \in 1..(Cardinality(used) + 1) : n \notin used

\* getPort({ port: defaultWatchServerPort }): the default port when no process
\* holds it, otherwise some other port that no process holds.
GetPort ==
    IF defaultWatchServerPort \notin taken THEN {defaultWatchServerPort}
    ELSE Ports \ taken

\* this.app.listen(p) returns the http server at once; when another process holds
\* p the server is not listening and reports the error with an 'error' event
\* later, outside the try block of start().
AppListen(p) == IF p \in taken THEN "failed" ELSE "listening"

\* start(), up to where it first waits: with this.port set it listens on it;
\* otherwise getPort is awaited (while no port is free getPort rejects, the
\* error is swallowed and the loop asks again).
Start ==
    /\ server = "none"
    /\ startPc = "idle"
    /\ IF port # NoPort
       THEN /\ server' = AppListen(port)
            /\ port' = port
            /\ startPc' = "done"
       ELSE /\ \E p \in GetPort : port' = p
            /\ server' = server
            /\ startPc' = "probed"
    /\ UNCHANGED <<serverGarden, analytics, serversUpdatedOn, gardenAnyListeners,
                   incomingAnyListeners, sockets, received, outbox, sendErrors, pending,
                   httpCount, httpResponse, published, argPort, envPort, taken>>

\* start() after getPort resolved: this.server = this.app.listen(this.port),
\* which ends the loop.
StartListen ==
    /\ startPc = "probed"
    /\ server' = AppListen(port)
    /\ startPc' = "done"
    /\ UNCHANGED <<serverGarden, analytics, serversUpdatedOn, gardenAnyListeners,
                   incomingAnyListeners, sockets, received, outbox, sendErrors, pending,
                   httpCount, httpResponse, published, argPort, envPort, port, taken>>

\* Another process binds the port p, which nobody is listening on.
OtherBinds(p) ==
    /\ p \notin taken
    /\ ~(server = "listening" /\ port = p)
    /\ taken' = taken \cup {p}
    /\ UNCHANGED <<server, serverGarden, analytics, serversUpdatedOn, gardenAnyListeners,
                   incomingAnyListeners, sockets, received, outbox, sendErrors, pending,
                   httpCount, httpResponse, published, argPort, envPort, port, startPc>>

\* Another process gives up the port p.
OtherReleases(p) ==
    /\ p \in taken
    /\ taken' = taken \ {p}
    /\ UNCHANGED <<server, serverGarden, analytics, serversUpdatedOn, gardenAnyListeners,
                   incomingAnyListeners, sockets, received, outbox, sendErrors, pending,
                   httpCount, httpResponse, published, argPort, envPort, port, startPc>>

\* Mutant: close() detaches the orchestrator as well.
ServerCloseDetaches ==
    /\ server = "listening"
    /\ server' = "closed"
    /\ serverGarden' = NoGarden
    /\ UNCHANGED <<analytics, serversUpdatedOn, gardenAnyListeners,
                   incomingAnyListeners, sockets, received, outbox, sendErrors, pending,
                   httpCount, httpResponse, published>>
    /\ UNCHANGED startVars

\* close(): this.server.close()
ServerClose ==
    /\ server = "listening"
    /\ server' = "closed"
    /\ UNCHANGED <<serverGarden, analytics, serversUpdatedOn, gardenAnyListeners,
                   incomingAnyListeners, sockets, received, outbox, sendErrors, pending,
                   httpCount, httpResponse, published>>
    /\ UNCHANGED startVars

\* setGarden(garden).  Before start() has created this.app, this.app.use throws
\* after this.garden has been assigned and before the listener is added.
SetGarden(g) ==
    LET removed == IF serverGarden # NoGarden
                   THEN [serversUpdatedOn EXCEPT ![serverGarden] = Max(@ - 1, 0)]
                   ELSE serversUpdatedOn
    IN  /\ serverGarden' = g
        /\ serversUpdatedOn' = IF startPc = "idle" THEN removed
                               ELSE [removed EXCEPT ![g] = @ + 1]
        /\ UNCHANGED <<server, analytics, gardenAnyListeners, incomingAnyListeners, sockets,
                       received, outbox, sendErrors, pending, httpCount, httpResponse,
                       published>>
        /\ UNCHANGED startVars

\* Mutant: notReady answers like a handled request.
NotReadyAnswersOk(route) ==
    [route |-> route, status |-> 200, body |-> notReadyMessage, garden |-> None]

\* notReady(ctx)
NotReady(route) ==
    [route |-> route, status |-> 503, body |-> notReadyMessage, garden |-> None]

\* POST /api, up to its first await.
PostApi ==
    /\ server = "listening"
    /\ httpCount < ScopeMaxApi(scope)
    /\ httpCount' = httpCount + 1
    /\ IF serverGarden = NoGarden
       THEN /\ httpResponse' = NotReady("/api")
            /\ pending' = pending
       ELSE /\ httpResponse' = httpResponse
            /\ pending' = pending \cup
                   {[call |-> FreshPending, kind |-> "http",
                     stage |-> IF analytics THEN "resolve" ELSE "init",
                     socket |-> 0, requestId |-> None, garden |-> serverGarden,
                     descriptor |-> {"command", "parameters"}]}
    /\ UNCHANGED <<server, serverGarden, analytics, serversUpdatedOn, gardenAnyListeners,
                   incomingAnyListeners, sockets, received, outbox, sendErrors, published>>
    /\ UNCHANGED startVars

\* POST /api after AnalyticsHandler.init settled: this.analytics is assigned and
\* resolveRequest is called with this.garden, or the error is rethrown.
AnalyticsInit(c, ok) ==
    /\ c \in pending
    /\ c.stage = "init"
    /\ IF ok
       THEN /\ analytics' = TRUE
            /\ pending' = (pending \ {c}) \cup
                              {[c EXCEPT !.stage = "resolve", !.garden = serverGarden]}
            /\ httpResponse' = httpResponse
       ELSE /\ analytics' = analytics
            /\ pending' = pending \ {c}
            /\ httpResponse' = [route |-> "/api", status |-> 500, body |-> None,
                                garden |-> None]
    /\ UNCHANGED <<server, serverGarden, serversUpdatedOn, gardenAnyListeners,
                   incomingAnyListeners, sockets, received, outbox, sendErrors, httpCount,
                   published>>
    /\ UNCHANGED startVars

\* Mutant: the credential is compared but the events are piped all the same.
PostEventsPipesFirst(credential, body) ==
    LET st == EmitBatch(body.events, <<outbox, sendErrors>>)
    IN  /\ server = "listening"
        /\ httpCount < ScopeMaxHttp(scope)
        /\ httpCount' = httpCount + 1
        /\ published + Len(body.events) <= ScopeMaxPublished(scope)
        /\ httpResponse' = [route |-> "/events",
                            status |-> IF credential # authKey THEN 401 ELSE 200,
                            body |-> None, garden |-> None]
        /\ outbox' = st[1]
        /\ sendErrors' = st[2]
        /\ published' = published + Len(body.events)
        /\ UNCHANGED <<server, serverGarden, analytics, serversUpdatedOn, gardenAnyListeners,
                       incomingAnyListeners, sockets, received, pending>>
        /\ UNCHANGED startVars

\* POST /events.  The body is not validated: batch.events.length of a body without
\* events throws.
PostEvents(credential, body) ==
    LET batch == body.events
        st == EmitBatch(batch, <<outbox, sendErrors>>)
    IN  /\ server = "listening"
        /\ httpCount < ScopeMaxHttp(scope)
        /\ httpCount' = httpCount + 1
        /\ IF credential # authKey
           THEN /\ httpResponse' = [route |-> "/events", status |-> 401, body |-> None,
                                    garden |-> None]
                /\ UNCHANGED <<outbox, sendErrors, published>>
           ELSE IF ~body.isBatch
           THEN /\ httpResponse' = [route |-> "/events", status |-> 500, body |-> None,
                                    garden |-> None]
                /\ UNCHANGED <<outbox, sendErrors, published>>
           ELSE /\ published + Len(batch) <= ScopeMaxPublished(scope)
                /\ httpResponse' = [route |-> "/events", status |-> 200, body |-> None,
                                    garden |-> None]
                /\ outbox' = st[1]
                /\ sendErrors' = st[2]
                /\ published' = published + Len(batch)
        /\ UNCHANGED <<server, serverGarden, analytics, serversUpdatedOn, gardenAnyListeners,
                       incomingAnyListeners, sockets, received, pending>>
        /\ UNCHANGED startVars

\* A client connects to /ws.  Without an orchestrator the handler returns from
\* notReady(ctx): the connection is open, and has no listener and no handler.
WsConnect(s) ==
    /\ server = "listening"
    /\ sockets[s].state = "none"
    /\ \A t \in SocketIds : t < s => sockets[t].state # "none"
    /\ IF serverGarden = NoGarden
       THEN /\ sockets' = [sockets EXCEPT ![s] = [state |-> "open", handlers |-> FALSE,
                                                   bus |-> NoGarden]]
            /\ UNCHANGED <<gardenAnyListeners, incomingAnyListeners>>
       ELSE /\ sockets' = [sockets EXCEPT ![s] = [state |-> "open", handlers |-> TRUE,
                                                   bus |-> serverGarden]]
            /\ gardenAnyListeners' =
                   [gardenAnyListeners EXCEPT ![serverGarden] = Append(@, s)]
            /\ incomingAnyListeners' = Append(incomingAnyListeners, s)
    /\ UNCHANGED <<server, serverGarden, analytics, serversUpdatedOn, received, outbox,
                   sendErrors, pending, httpCount, httpResponse, published>>
    /\ UNCHANGED startVars

\* The connection s ends: the "close" handler, if one was registered.
WsClose(s) ==
    /\ sockets[s].state = "open"
    /\ sockets' = [sockets EXCEPT ![s].state = "closed"]
    /\ IF sockets[s].handlers
       THEN /\ gardenAnyListeners' =
                   IF serverGarden # NoGarden
                   THEN [gardenAnyListeners EXCEPT ![serverGarden] = Remove(@, s)]
                   ELSE gardenAnyListeners
            /\ incomingAnyListeners' = Remove(incomingAnyListeners, s)
       ELSE UNCHANGED <<gardenAnyListeners, incomingAnyListeners>>
    /\ UNCHANGED <<server, serverGarden, analytics, serversUpdatedOn, received, outbox,
                   sendErrors, pending, httpCount, httpResponse, published>>
    /\ UNCHANGED startVars

RECURSIVE SumUpTo(_, _)
SumUpTo(f, n) == IF n = 0 THEN 0 ELSE f[n] + SumUpTo(f, n - 1)

\* The socket messages received so far, on all connections.
TotalReceived == SumUpTo(received, Cardinality(SocketIds))

\* joi.string().uuid().required()
ValidId(id) == id \in Uuids

\* joi.string().required()
ValidType(type) == type \notin {None, "notString"}

\* The field names of the JSON value req: id and type where present, and the
\* command with its parameters.
Fields(req) ==
    (IF req.id = None THEN {} ELSE {"id"})
        \cup (IF req.type = None THEN {} ELSE {"type"})
        \cup {"command", "parameters"}

\* omit(request, names): the request without the named fields.
Omit(fields, names) == fields \ names

\* Mutant: the type is validated before the id.
RepliesTypeFirst(req) ==
    IF req.json = "garbage" THEN <<ErrorMessage(None, "Could not parse message as JSON")>>
    ELSE IF req.json = "null" THEN <<>>
    ELSE IF ~ValidType(req.type)
    THEN <<ErrorMessage(None, "Message should contain a type field")>>
    ELSE IF ~ValidId(req.id)
    THEN <<ErrorMessage(None, "Message should contain an id field with a UUID value")>>
    ELSE IF req.type = "command"
    THEN IF serverGarden = NoGarden THEN <<ErrorMessage(req.id, notReadyMessage)>> ELSE <<>>
    ELSE <<ErrorMessage(req.id, "Unsupported request type: status")>>

\* The "message" handler for the request req: the messages it sends at once, and
\* whether it calls resolveRequest.  Reading request.id of the JSON value null
\* throws, outside every try block.
Replies(req) ==
    IF req.json = "garbage" THEN <<ErrorMessage(None, "Could not parse message as JSON")>>
    ELSE IF req.json = "null" THEN <<>>
    ELSE IF ~ValidId(req.id)
    THEN <<ErrorMessage(None, "Message should contain an id field with a UUID value")>>
    ELSE IF ~ValidType(req.type)
    THEN <<ErrorMessage(None, "Message should contain a type field")>>
    ELSE IF req.type = "command"
    THEN IF serverGarden = NoGarden THEN <<ErrorMessage(req.id, notReadyMessage)>> ELSE <<>>
    ELSE <<ErrorMessage(req.id, "Unsupported request type: status")>>

Resolves(req) ==
    /\ req.json = "value"
    /\ ValidId(req.id)
    /\ ValidType(req.type)
    /\ req.type = "command"
    /\ serverGarden # NoGarden

\* The client sends req on the connection s.
SocketMessage(s, req) ==
    LET st == IF Len(Replies(req)) = 0 THEN <<outbox, sendErrors>>
              ELSE Send(<<outbox, sendErrors>>, s, Replies(req)[1])
    IN  /\ sockets[s].state = "open"
        /\ TotalReceived < ScopeMaxMessages(scope)
        /\ received' = [received EXCEPT ![s] = @ + 1]
        /\ IF sockets[s].handlers
           THEN /\ outbox' = st[1]
                /\ sendErrors' = st[2]
                /\ pending' =
                       IF Resolves(req)
                       THEN pending \cup
                                {[call |-> FreshPending, kind |-> "ws", stage |-> "resolve",
                                  socket |-> s, requestId |-> req.id,
                                  garden |-> serverGarden,
                                  descriptor |-> Omit(Fields(req), {"id", "type"})]}
                       ELSE pending
           ELSE UNCHANGED <<outbox, sendErrors, pending>>
        /\ UNCHANGED <<server, serverGarden, analytics, serversUpdatedOn, gardenAnyListeners,
                       incomingAnyListeners, sockets, httpCount, httpResponse, published>>
        /\ UNCHANGED startVars

\* Mutant: a gracefully failed command is answered like a thrown one.
ApiResponseFailedIs500(c, outcome) ==
    IF outcome # "ok"
    THEN [route |-> "/api", status |-> 500, body |-> None, garden |-> None]
    ELSE [route |-> "/api", status |-> 200, body |-> outcome, garden |-> c.garden]

\* The answer of POST /api once resolveRequest settled: status 200 with the result
\* as the body, or the rejection rethrown (answered by Koa with status 500).
ApiResponse(c, outcome) ==
    IF outcome = "thrown"
    THEN [route |-> "/api", status |-> 500, body |-> None, garden |-> None]
    ELSE [route |-> "/api", status |-> 200, body |-> outcome, garden |-> c.garden]

\* resolveRequest settles: the then / catch callbacks of the socket handler, or the
\* rest of the POST /api handler.
CommandDone(c, outcome) ==
    LET msg == IF outcome = "thrown" THEN ErrorMessage(c.requestId, "command error")
               ELSE CommandResultMessage(c.requestId, outcome,
                                         IF outcome = "failed" THEN "errors" ELSE None,
                                         c.garden)
        st == Send(<<outbox, sendErrors>>, c.socket, msg)
    IN  /\ c \in pending
        /\ c.stage = "resolve"
        /\ pending' = pending \ {c}
        /\ IF c.kind = "ws"
           THEN /\ outbox' = st[1]
                /\ sendErrors' = st[2]
                /\ httpResponse' = httpResponse
           ELSE /\ httpResponse' = ApiResponse(c, outcome)
                /\ UNCHANGED <<outbox, sendErrors>>
        /\ UNCHANGED <<server, serverGarden, analytics, serversUpdatedOn, gardenAnyListeners,
                       incomingAnyListeners, sockets, received, httpCount, published>>
        /\ UNCHANGED startVars

\* The orchestrator g publishes the event e on its bus.
GardenEmit(g, e) ==
    LET st == EmitAny(gardenAnyListeners[g], <<outbox, sendErrors>>, EventMessage(e, g))
    IN  /\ published < ScopeMaxPublished(scope)
        /\ published' = published + 1
        /\ outbox' = st[1]
        /\ sendErrors' = st[2]
        /\ UNCHANGED <<server, serverGarden, analytics, serversUpdatedOn, gardenAnyListeners,
                       incomingAnyListeners, sockets, received, pending, httpCount,
                       httpResponse>>
        /\ UNCHANGED startVars

ServerInit ==
    /\ scope \in ServerScopes
    /\ DefaultEnvironment
    /\ dashPc = "none"
    /\ MigrateIdle
    /\ Constructed

ServerNext ==
    \/ Start /\ UNCHANGED <<vars, dashPc, migrateVars>>
    \/ StartListen /\ UNCHANGED <<vars, dashPc, migrateVars>>
    \/ ServerClose /\ UNCHANGED <<vars, dashPc, migrateVars>>
    \/ \E g \in ScopeServerGardens(scope) : SetGarden(g) /\ UNCHANGED <<vars, dashPc, migrateVars>>
    \/ PostApi /\ UNCHANGED <<vars, dashPc, migrateVars>>
    \/ \E c \in pending, ok \in BOOLEAN : AnalyticsInit(c, ok) /\ UNCHANGED <<vars, dashPc, migrateVars>>
    \/ \E credential \in Credentials, body \in Bodies :
           PostEvents(credential, body) /\ UNCHANGED <<vars, dashPc, migrateVars>>
    \/ \E s \in ScopeSocketIds(scope) : WsConnect(s) /\ UNCHANGED <<vars, dashPc, migrateVars>>
    \/ \E s \in SocketIds : WsClose(s) /\ UNCHANGED <<vars, dashPc, migrateVars>>
    \/ \E s \in SocketIds, req \in Requests : SocketMessage(s, req) /\ UNCHANGED <<vars, dashPc, migrateVars>>
    \/ \E c \in pending, outcome \in CommandOutcomes : CommandDone(c, outcome) /\ UNCHANGED <<vars, dashPc, migrateVars>>
    \/ \E g \in ScopeServerGardens(scope), e \in ServerEvents :
           GardenEmit(g, e) /\ UNCHANGED <<vars, dashPc, migrateVars>>

ServerSpec == ServerInit /\ [][ServerNext]_allVars

(***************************************************************************)
(* start() with the ports of the machine: what startServer was asked for,  *)
(* and other processes that bind and release ports meanwhile.              *)
(***************************************************************************)
StartInit ==
    /\ scope = StartScope
    /\ argPort \in Ports \cup {NoPort}
    /\ envPort \in Ports \cup {NoPort}
    /\ taken \in SUBSET Ports
    /\ dashPc = "none"
    /\ MigrateIdle
    /\ Constructed

StartNext ==
    \/ Start /\ UNCHANGED <<vars, dashPc, migrateVars>>
    \/ StartListen /\ UNCHANGED <<vars, dashPc, migrateVars>>
    \/ ServerClose /\ UNCHANGED <<vars, dashPc, migrateVars>>
    \/ \E p \in Ports : OtherBinds(p) /\ UNCHANGED <<vars, dashPc, migrateVars>>
    \/ \E p \in Ports : OtherReleases(p) /\ UNCHANGED <<vars, dashPc, migrateVars>>

StartSpec == StartInit /\ [][StartNext]_allVars

(***************************************************************************)
(* DashboardCommand: prepare() and then action(), as the command line      *)
(* calls them.                                                             *)
(***************************************************************************)
DashboardScope == "dashboard"

\* The port option of the command, its default included, or 0 when given so;
\* GARDEN_SERVER_PORT set or not; other processes holding ports.
DashboardInit ==
    /\ scope = DashboardScope
    /\ argPort \in Ports \cup {NoPort}
    /\ envPort \in {NoPort, defaultWatchServerPort}
    /\ taken \in SUBSET Ports
    /\ dashPc = "prepare"
    /\ MigrateIdle
    /\ Constructed

\* prepare(): this.server = await startServer({ log, port: opts.port }), up to
\* where start() first waits; prepare returns once start() has.
DashboardPrepare ==
    /\ dashPc = "prepare"
    /\ Start
    /\ dashPc' = IF startPc' = "done" THEN "action" ELSE "prepare"

\* prepare() once getPort has resolved.
DashboardPrepareListen ==
    /\ dashPc = "prepare"
    /\ StartListen
    /\ dashPc' = "action"

\* Mutant: action() runs without attaching the orchestrator.
DashboardActionSkipsSetGarden(g) ==
    /\ dashPc = "action"
    /\ dashPc' = "loop"
    /\ UNCHANGED <<server, serverGarden, analytics, serversUpdatedOn, gardenAnyListeners,
                   incomingAnyListeners, sockets, received, outbox, sendErrors, pending,
                   httpCount, httpResponse, published, startVars>>

\* action({ garden }): this.server.setGarden(garden), then the loop is entered.
DashboardAction(g) ==
    /\ dashPc = "action"
    /\ SetGarden(g)
    /\ dashPc' = "loop"

\* while (true) { await sleep(10000) }: one more turn of the loop.
DashboardSleep ==
    /\ dashPc = "loop"
    /\ UNCHANGED serverVars

DashboardNext ==
    \/ DashboardPrepare /\ UNCHANGED <<vars, migrateVars>>
    \/ DashboardPrepareListen /\ UNCHANGED <<vars, migrateVars>>
    \/ \E g \in Gardens : DashboardAction(g) /\ UNCHANGED <<vars, migrateVars>>
    \/ DashboardSleep /\ UNCHANGED <<vars, migrateVars>>
    \/ \E p \in Ports : OtherBinds(p) /\ UNCHANGED <<vars, dashPc, migrateVars>>
    \/ \E p \in Ports : OtherReleases(p) /\ UNCHANGED <<vars, dashPc, migrateVars>>

DashboardSpec == DashboardInit /\ [][DashboardNext]_allVars

(***************************************************************************)
(* migrateToHelm3: the releases of Tiller are converted to Helm 3 releases *)
(* and Tiller is removed.                                                  *)
(***************************************************************************)
MigrateScope == "migrate"

ReleaseNames == {"r1", "r2", "r3"}

\* Status of a release in the listing of helm (version 2).
Statuses == {"DEPLOYED", "FAILED"}

Releases == [Name : ReleaseNames, Status : Statuses]

\* What Tiller can hold: at most MaxReleases releases, each name once.
TillerLists ==
    {l \in UNION {[1..n -> Releases] : n \in 0..MaxReleases} :
        \A i, j \in 1..Len(l) : l[i].Name = l[j].Name => i = j}

\* How the listing can end: the command throws (res stays undefined); with
\* no release, helm prints nothing ("empty"), white space ("blank") or a
\* document without releases; with releases, a document ("json").
ListOutcomes(list) ==
    IF list = <<>> THEN {"undefined", "empty", "blank", "json"} ELSE {"undefined", "json"}

\* if (res): undefined and the empty string are falsy.
Truthy(r) == r \in {"blank", "json"}

\* res.trim() === "" ? { Releases: [] } : JSON.parse(res)
ListFromTiller(r, list) == IF r = "blank" THEN <<>> ELSE list

\* Mutant: the names of all the releases listed, whatever their status.
AllNames(list) == [i \in 1..Len(list) |-> list[i].Name]

\* listFromTiller.Releases.filter((r) => r.Status === "DEPLOYED").map((r) => r.Name)
DeployedNames(list) ==
    LET deployed == SelectSeq(list, LAMBDA r : r.Status = "DEPLOYED")
    IN  [i \in 1..Len(deployed) |-> deployed[i].Name]

\* How installing the 2to3 plugin can end: installed; already there and
\* updated; already there and the update throws; another error.
PluginOutcomes == {"installed", "updated", "updateFailed", "otherError"}

\* Where the function is once the loop stands at position i.
AfterRelease(i) == IF i > Len(tillerReleaseNames) THEN "remove" ELSE "convert"

MigrateInit ==
    /\ scope = MigrateScope
    /\ DefaultEnvironment
    /\ dashPc = "none"
    /\ Constructed
    /\ migPc = "listTiller"
    /\ tillerList \in TillerLists
    /\ helm3List \in SUBSET ReleaseNames
    /\ res = "undefined"
    /\ tillerReleaseNames = <<>>
    /\ helm3ReleaseNames = {}
    /\ releaseIndex = 1
    /\ converted = <<>>
    /\ tillerRemoved = FALSE

\* The listing of Tiller's releases: a throw is caught and logged; without a
\* result the conversion is skipped, with one the deployed names are kept.
MigrateListTiller(outcome) ==
    /\ migPc = "listTiller"
    /\ outcome \in ListOutcomes(tillerList)
    /\ res' = outcome
    /\ IF Truthy(outcome)
       THEN /\ tillerReleaseNames' = DeployedNames(ListFromTiller(outcome, tillerList))
            /\ migPc' = "listHelm3"
       ELSE /\ migPc' = "remove"
            /\ UNCHANGED tillerReleaseNames
    /\ UNCHANGED <<tillerList, helm3List, helm3ReleaseNames, releaseIndex, converted,
                   tillerRemoved>>

\* The listing of the Helm 3 releases: nothing catches a throw.
MigrateListHelm3(ok) ==
    /\ migPc = "listHelm3"
    /\ IF ok
       THEN /\ helm3ReleaseNames' = helm3List
            /\ migPc' = "plugin"
       ELSE /\ migPc' = "failed"
            /\ UNCHANGED helm3ReleaseNames
    /\ UNCHANGED <<tillerList, helm3List, res, tillerReleaseNames, releaseIndex, converted,
                   tillerRemoved>>

\* plugin install, and plugin update when the plugin already exists; any
\* other error is thrown again. Then the loop starts.
MigratePlugin(outcome) ==
    /\ migPc = "plugin"
    /\ migPc' = IF outcome \in {"installed", "updated"}
                THEN AfterRelease(releaseIndex)
                ELSE "failed"
    /\ UNCHANGED <<tillerList, helm3List, res, tillerReleaseNames, helm3ReleaseNames,
                   releaseIndex, converted, tillerRemoved>>

\* One turn of the loop: a name Helm 3 already has is passed over; any other
\* is given to 2to3 convert, which throws or not (the temporary directory is
\* cleaned up either way).
MigrateConvert(ok) ==
    /\ migPc = "convert"
    /\ LET releaseName == tillerReleaseNames[releaseIndex]
       IN  IF releaseName \in helm3ReleaseNames
           THEN /\ releaseIndex' = releaseIndex + 1
                /\ migPc' = AfterRelease(releaseIndex + 1)
                /\ UNCHANGED converted
           ELSE IF ok
           THEN /\ converted' = Append(converted, releaseName)
                /\ releaseIndex' = releaseIndex + 1
                /\ migPc' = AfterRelease(releaseIndex + 1)
           ELSE /\ migPc' = "failed"
                /\ UNCHANGED <<converted, releaseIndex>>
    /\ UNCHANGED <<tillerList, helm3List, res, tillerReleaseNames, helm3ReleaseNames,
                   tillerRemoved>>

\* removeTiller, and the function returns; a delete that throws ends it.
MigrateRemove(ok) ==
    /\ migPc = "remove"
    /\ IF ok
       THEN /\ tillerRemoved' = TRUE
            /\ migPc' = "done"
       ELSE /\ migPc' = "failed"
            /\ UNCHANGED tillerRemoved
    /\ UNCHANGED <<tillerList, helm3List, res, tillerReleaseNames, helm3ReleaseNames,
                   releaseIndex, converted>>

MigrateNext ==
    \/ \E outcome \in ListOutcomes(tillerList) :
           MigrateListTiller(outcome) /\ UNCHANGED <<vars, serverVars>>
    \/ \E ok \in BOOLEAN : MigrateListHelm3(ok) /\ UNCHANGED <<vars, serverVars>>
    \/ \E outcome \in PluginOutcomes : MigratePlugin(outcome) /\ UNCHANGED <<vars, serverVars>>
    \/ \E ok \in BOOLEAN : MigrateConvert(ok) /\ UNCHANGED <<vars, serverVars>>
    \/ \E ok \in BOOLEAN : MigrateRemove(ok) /\ UNCHANGED <<vars, serverVars>>

MigrateSpec == MigrateInit /\ [][MigrateNext]_allVars

(***************************************************************************)
(* Properties                                                              *)
(***************************************************************************)
\* Ids are given in the order of the streamEvent / streamLogEntry calls, so a
\* strictly increasing sequence of ids is a sequence in recording order with no
\* item twice.
BufferedIds == Range(Ids(bufferedEvents)) \cup Range(Ids(bufferedLogEntries))

\* C1: the items of each kind reach every target in the order in which they were
\* recorded, within one batch and across successive batches, and no periodic
\* flush sends more than maxBatchSize items of one kind.
C1_OrderAndBatchCap ==
    /\ StrictlyIncreasing(Ids(bufferedEvents))
    /\ StrictlyIncreasing(Ids(bufferedLogEntries))
    /\ \A h \in Hosts, p \in Paths : StrictlyIncreasing(sent[h][p])
    /\ \A r \in inflight :
        /\ StrictlyIncreasing(Ids(r.data.items))
        /\ r.call = 0 => Len(r.data.items) <= maxBatchSize

\* Three events went to t1 in two periodic batches: a full one, then the rest.
C1_Witness ==
    /\ sent["t1"]["events"] = <<1, 2, 3>>
    /\ \E r \in inflight : r.call = 0 /\ r.path = "events" /\ Ids(r.data.items) = <<3>>

\* C2: a periodic flush that passes the guard removes exactly min(n, maxBatchSize)
\* items from the front of each buffer, n being the length of that buffer.
C2_PeriodicFlushTakesBatchOfEach ==
    [][\A t \in activeTimers :
          (Tick(t) /\ ~FlushGuard) =>
              /\ bufferedEvents' =
                     SubSeq(bufferedEvents, Min(Len(bufferedEvents), maxBatchSize) + 1,
                            Len(bufferedEvents))
              /\ bufferedLogEntries' =
                     SubSeq(bufferedLogEntries, Min(Len(bufferedLogEntries), maxBatchSize) + 1,
                            Len(bufferedLogEntries))]_vars

\* C3: right after close(), whatever the targets and the orchestrator, both
\* buffers are empty.
C3_CloseEmptiesBuffers ==
    afterClose \in {"quiet", "quiet2"} => bufferedEvents = <<>> /\ bufferedLogEntries = <<>>

\* C4: delivery is at-most-once: an item that is in a request (outcome not yet
\* known) or was posted to a target is in no buffer, and no item is posted to the
\* same target twice, whether its request fails or not.
C4_AtMostOnce ==
    /\ \A r \in inflight : Range(Ids(r.data.items)) \cap BufferedIds = {}
    /\ \A h \in Hosts, p \in Paths :
        /\ Range(sent[h][p]) \cap BufferedIds = {}
        /\ \A i, j \in 1..Len(sent[h][p]) : i # j => sent[h][p][i] # sent[h][p][j]

\* A request of a final flush failed (its close() has returned while the request
\* to the other target is out), and a later flush has posted a later item to t1
\* without the failed batch.
C4_Witness ==
    \E r \in inflight :
        /\ r.call # 0 /\ r.call \notin pendingCloses
        /\ Len(sent["t1"][r.path]) > Len(r.data.items)
        /\ SubSeq(sent["t1"][r.path], 1, Len(r.data.items)) = Ids(r.data.items)

\* C5: every batch a flush takes from a buffer is posted, in that step, to every
\* configured target, whatever requests are out or have failed, and whatever
\* happens to the batch of the other kind.
C5_EveryTargetGetsEveryBatch ==
    [][/\ Len(bufferedEvents') < Len(bufferedEvents) =>
            \A i \in 1..Len(targets) :
                \E r \in inflight' \ inflight :
                    /\ r.host = targets[i] /\ r.path = "events"
                    /\ r.data.items =
                           SubSeq(bufferedEvents, 1, Len(bufferedEvents) - Len(bufferedEvents'))
       /\ Len(bufferedLogEntries') < Len(bufferedLogEntries) =>
            \A i \in 1..Len(targets) :
                \E r \in inflight' \ inflight :
                    /\ r.host = targets[i] /\ r.path = "log-entries"
                    /\ r.data.items =
                           SubSeq(bufferedLogEntries, 1,
                                  Len(bufferedLogEntries) - Len(bufferedLogEntries'))]_vars

\* A final flush started requests for both kinds to both targets; the request
\* for the events to t1 has failed (close() has returned), and the three others,
\* to t2 and for the log entries, are out.
C5_Witness ==
    \E c \in {r.call : r \in inflight} \ {0} :
        /\ c \notin pendingCloses
        /\ \A h \in Hosts, p \in Paths :
               (\E r \in inflight : r.call = c /\ r.host = h /\ r.path = p)
                   <=> <<h, p>> # <<"t1", "events">>

\* C6: when close() has returned, no request of its final flush is still out.
C6_CloseReturnsAfterAllRequests ==
    \A r \in inflight : r.call # 0 => r.call \in pendingCloses

\* C7: a close() right after a close() starts no request, leaves the timer
\* stopped and the buffers as they are, and returns at once.
C7_CloseIdempotent ==
    [][(afterClose \in {"quiet", "quiet2"} /\ Close) =>
           /\ inflight' = inflight
           /\ sent' = sent
           /\ bufferedEvents' = bufferedEvents
           /\ bufferedLogEntries' = bufferedLogEntries
           /\ pendingCloses' = pendingCloses
           /\ intervalId' = NoTimer
           /\ activeTimers' = {}]_vars

\* A second close() in a row, the first having flushed to a target.
C7_Witness ==
    /\ afterClose = "quiet2"
    /\ garden # NoGarden
    /\ Len(targets) > 0
    /\ sent["t1"]["events"] # <<>>

\* C8: from close() until the next connect() no timer is active, so no periodic
\* flush (Tick) can start.
C8_NoTimerAfterClose ==
    afterClose # "none" =>
        /\ activeTimers = {}
        /\ intervalId = NoTimer
        /\ ~ENABLED (\E t \in activeTimers : Tick(t))

\* close() was called on a connected stream with a target, and items recorded
\* after it are waiting.
C8_Witness ==
    /\ afterClose = "recorded"
    /\ garden # NoGarden
    /\ Len(targets) > 0
    /\ Len(bufferedEvents) > 0

C9_Inv ==
    /\ Cardinality(activeTimers) <= 1
    /\ intervalId # NoTimer => activeTimers = {intervalId}
    /\ \A g \in Gardens, n \in eventNames :
        busListeners[g][n] = IF g = garden THEN <<gardenEventListeners[n]>> ELSE <<>>

C9_Step ==
    \A g \in Gardens, n \in eventNames \ controlEventNames, u \in Uids :
        Emit(g, n, u) =>
            bufferedEvents' = IF g = garden
                              THEN Append(bufferedEvents, [id |-> nextId, name |-> n, bus |-> g])
                              ELSE bufferedEvents

\* C9: at most one timer is active; the stream has exactly one listener per event
\* name on the bus of the connected orchestrator and none on any other bus; an
\* event published on the connected bus is buffered once, and one published on
\* another bus is not buffered.
C9_OneTimerOneListener == []C9_Inv /\ [][C9_Step]_vars

\* gB was connected after gA, and events of both are buffered.
C9_Witness ==
    /\ garden = "gB"
    /\ \E i \in 1..Len(bufferedEvents) : bufferedEvents[i].bus = "gA"
    /\ \E i \in 1..Len(bufferedEvents) : bufferedEvents[i].bus = "gB"

\* The hosts of the list a connect() call supplies; none when it supplies no list.
SuppliedHosts(ts) == IF ts = Undefined THEN {} ELSE Range(ts)

\* C10 as stated: after every connect() the targets are exactly those supplied in
\* that call.
C10_TargetsAreThoseSupplied ==
    [][\A g \in Gardens, ts \in TargetLists \cup {Undefined} :
          Connect(g, ts) => Range(targets') = SuppliedHosts(ts)]_vars

\* C10 amended: a connect() that supplies a list replaces the target list by it; a
\* connect() that supplies none keeps the list; the requests of a flush go to the
\* hosts of the current list and to no other.
C10_SuppliedListReplaces ==
    [][/\ \A g \in Gardens, ts \in TargetLists \cup {Undefined} :
            (garden' = g /\ Connect(g, ts)) => targets' = IF ts = Undefined THEN targets ELSE ts
       /\ \A r \in inflight' \ inflight : r.host \in Range(targets)]_vars

\* The list t1, t2 was replaced by the empty list: both hosts have been sent a
\* batch, and with the timer running a later event stays in the buffer.
C10_Witness ==
    /\ targets = <<>>
    /\ intervalId # NoTimer
    /\ sent["t1"]["events"] # <<>>
    /\ sent["t2"]["events"] # <<>>
    /\ \E i \in 1..Len(bufferedEvents) :
           bufferedEvents[i].id > sent["t2"]["events"][Len(sent["t2"]["events"])]

\* C11: no buffered event and no event of a batch that is being sent has a control
\* event name. Every batch is in flight in the step that sends it.
C11_NoControlEventBuffered ==
    /\ \A i \in 1..Len(bufferedEvents) : bufferedEvents[i].name \notin controlEventNames
    /\ \A r \in inflight :
           \A i \in 1..Len(r.data.items) : r.data.items[i].name \notin controlEventNames

\* A control event has been handled while an event was buffered and a batch of
\* events was out.
C11_Witness ==
    /\ workflowRunUid # NoUid
    /\ bufferedEvents # <<>>
    /\ \E r \in inflight : r.path = "events" /\ r.data.workflowRunUid = NoUid

\* C12 as stated: once a control event with id U has been handled, every batch
\* sent carries U.
C12_BatchesCarryRegisteredUid ==
    [][\A r \in inflight' \ inflight :
          workflowRunUid # NoUid => r.data.workflowRunUid = workflowRunUid]_vars

\* C12 amended: a control event on the connected bus sets the registered id; every
\* batch sent carries GARDEN_WORKFLOW_RUN_UID when that is set, and otherwise the
\* id of the latest control event handled (none before the first).
C12_BatchesCarryEnvOrRegisteredUid ==
    [][/\ \A u \in Uids :
            (garden # NoGarden /\ Emit(garden, "_workflowRunRegistered", u))
                => workflowRunUid' = u
       /\ \A r \in inflight' \ inflight :
            r.data.workflowRunUid =
                IF envWorkflowRunUid # NoUid THEN envWorkflowRunUid ELSE workflowRunUid]_vars

\* Two batches are out, the first sent after the control event with u1 and the
\* second after the one with u2.
C12_Witness ==
    \E r1, r2 \in inflight :
        /\ r1.data.workflowRunUid = "u1"
        /\ r2.data.workflowRunUid = "u2"
        /\ r1.data.items[1].id < r2.data.items[1].id

\* The responses (messages other than event pushes) sent on the connection s.
Responses(s) == {i \in 1..Len(outbox[s]) : outbox[s][i].type # "event"}

\* C13: a POST /api handled while no orchestrator is attached is answered with
\* status 503 and the not-ready message, and starts no command resolution.
C13_ApiNotReady ==
    [][(PostApi /\ serverGarden = NoGarden) =>
          /\ httpResponse' = [route |-> "/api", status |-> 503,
                              body |-> "Waiting for Garden instance to initialize",
                              garden |-> None]
          /\ pending' = pending]_allVars

\* POST /api has been answered 503 by a listening server without orchestrator.
C13_Witness ==
    /\ server = "listening"
    /\ serverGarden = NoGarden
    /\ httpResponse.route = "/api"
    /\ httpResponse.status = 503
    /\ httpCount = MaxHttp

\* C14: a command request with a UUID id that arrives on any connection while no
\* orchestrator is attached is answered on it with the not-ready error carrying
\* the id.
C14_SocketCommandNotReady ==
    [][\A s \in SocketIds, req \in Requests :
          (/\ SocketMessage(s, req)
           /\ serverGarden = NoGarden
           /\ req.json = "value" /\ req.id \in Uuids /\ req.type = "command")
              => outbox'[s] = Append(outbox[s], ErrorMessage(req.id, notReadyMessage))]_allVars

\* C15: once another orchestrator is attached, an event published on the bus of
\* the previous one reaches no socket.
C15_NoForwardingFromPreviousGarden ==
    [][\A g \in Gardens, e \in ServerEvents :
          (GardenEmit(g, e) /\ serverGarden \notin {g, NoGarden}) => outbox' = outbox]_allVars

\* C16: POST /events with a missing or wrong credential is answered 401 without
\* a body, sends nothing on any socket, publishes nothing and changes nothing
\* else of the server.
C16_EventsUnauthorized ==
    [][\A credential \in Credentials \ {authKey}, body \in Bodies :
          PostEvents(credential, body) =>
              /\ httpResponse' = [route |-> "/events", status |-> 401, body |-> None,
                                  garden |-> None]
              /\ UNCHANGED <<outbox, sendErrors, published, server, serverGarden, analytics,
                             serversUpdatedOn, gardenAnyListeners, incomingAnyListeners,
                             sockets, received, pending>>]_allVars

\* A POST /events was answered 401 while a connection with a listener on the
\* inbound bus was open; nothing has been sent on it.
C16_Witness ==
    /\ httpResponse.route = "/events"
    /\ httpResponse.status = 401
    /\ \E s \in SocketIds : sockets[s].state = "open" /\ s \in Range(incomingAnyListeners)
    /\ \A s \in SocketIds : outbox[s] = <<>>

\* C17: an accepted POST /events sends every event of the batch, in batch order
\* and once, on every open connection, and answers 200.
C17_EventsRepublished ==
    [][\A body \in Bodies :
          (PostEvents(authKey, body) /\ body.isBatch) =>
              /\ httpResponse'.status = 200
              /\ \A s \in SocketIds :
                     sockets[s].state = "open" =>
                         outbox'[s] = outbox[s] \o
                             [i \in 1..Len(body.events) |->
                                 EventMessage(body.events[i], "incoming")]]_allVars

\* C18: a request whose id is absent or not a UUID is answered with one error
\* without requestId, and starts no command.
C18_BadIdAnswered ==
    [][\A s \in SocketIds, req \in Requests :
          (/\ SocketMessage(s, req)
           /\ sockets[s].handlers
           /\ req.json \in {"value", "null"} /\ req.id \notin Uuids)
              => /\ Len(outbox'[s]) = Len(outbox[s]) + 1
                 /\ outbox'[s][Len(outbox'[s])].type = "error"
                 /\ outbox'[s][Len(outbox'[s])].requestId = None
                 /\ pending' = pending]_allVars

\* C19: every response the message handler sends for a request with a UUID id
\* carries that id as requestId.
C19_ResponsesEchoId ==
    [][\A s \in SocketIds, req \in Requests :
          (SocketMessage(s, req) /\ req.json = "value" /\ req.id \in Uuids)
              => \A i \in (Len(outbox[s]) + 1)..Len(outbox'[s]) :
                     outbox'[s][i].requestId = req.id]_allVars

\* C20: on an open connection with a message handler, every message received has
\* one response or a command under way that will send one.
C20_OneResponsePerMessage ==
    \A s \in SocketIds :
        (sockets[s].state = "open" /\ sockets[s].handlers) =>
            received[s] = Cardinality(Responses(s))
                              + Cardinality({c \in pending : c.socket = s})

\* C21: when the attached orchestrator publishes an event, every open connection
\* that was opened while this orchestrator was attached receives exactly one event
\* message with the published name and payload, and a connection that is not open
\* receives nothing.
C21_FanOut ==
    [][\A g \in Gardens, e \in ServerEvents :
          (GardenEmit(g, e) /\ g = serverGarden) =>
              \A s \in SocketIds :
                  /\ (sockets[s].state = "open" /\ sockets[s].bus = g)
                         => outbox'[s] = Append(outbox[s], EventMessage(e, g))
                  /\ sockets[s].state # "open" => outbox'[s] = outbox[s]]_allVars

C21_Witness ==
    /\ serverGarden # NoGarden
    /\ \A s \in SocketIds :
           /\ sockets[s].state = "open"
           /\ sockets[s].bus = serverGarden
           /\ outbox[s] # <<>>
           /\ outbox[s][Len(outbox[s])].type = "event"
           /\ outbox[s][Len(outbox[s])].garden = serverGarden
    /\ outbox[1] = outbox[2]

\* C22: a connection that has closed has no listener left on the inbound bus or on
\* the bus of any orchestrator.
C22_ClosedSocketHasNoListener ==
    \A s \in SocketIds :
        sockets[s].state = "closed" =>
            /\ s \notin Range(incomingAnyListeners)
            /\ \A g \in Gardens : s \notin Range(gardenAnyListeners[g])

C24_PortSelection ==
    /\ []((startPc = "done" /\ ExplicitPort # NoPort) => port = ExplicitPort)
    /\ [][(Start /\ port = NoPort) =>
             /\ port' \notin taken
             /\ defaultWatchServerPort \notin taken => port' = defaultWatchServerPort]_allVars
    /\ []((startPc = "done" /\ ExplicitPort = NoPort) => server \in {"listening", "closed"})

\* C25: once the server is closed nothing is sent on any socket, no HTTP request
\* is answered, no command is accepted and no connection is opened.
C25_ClosedIsTerminal ==
    [][server = "closed" =>
          /\ outbox' = outbox
          /\ httpResponse' = httpResponse
          /\ pending' \subseteq pending
          /\ \A s \in SocketIds : sockets'[s].state = "open" => sockets[s].state = "open"]_allVars

\* C26: every request the stream starts, in a periodic flush or in the final
\* flush of close(), carries at least one event or log entry.
C26_NoEmptyBatch ==
    [][\A r \in inflight' \ inflight : Len(r.data.items) >= 1]_allVars

C26_Witness ==
    \E r \in inflight :
        /\ r.call # 0
        /\ r.path = "events"
        /\ \A q \in inflight : q.call = r.call => q.path = "events"
        /\ \E q \in inflight : q.call = 0 /\ q.path = "log-entries"

\* C27: no step changes the session id of the stream, and every batch carries it.
C27_SessionIdFixed ==
    /\ [][sessionId' = sessionId]_allVars
    /\ [][\A r \in inflight' \ inflight : r.data.sessionId = sessionId]_allVars

C27_Witness ==
    /\ sessionId = "s2"
    /\ workflowRunUid # NoUid
    /\ afterClose # "none"
    /\ \E r \in inflight : r.path = "events" /\ r.data.sessionId = "s2"
    /\ \E r \in inflight : r.path = "log-entries" /\ r.data.sessionId = "s2"

\* C28: streamEvent and streamLogEntry keep what is buffered and add at most one
\* item at the tail of their own buffer; recording starts no request and leaves
\* the other buffer, the targets, the timer and the attached orchestrator as they
\* are; and both can be called in every state of the stream.
C28_RecordOnlyEnqueues ==
    /\ [](\A name \in eventNames, uid \in Uids :
             LET payload == IF name \in controlEventNames
                            THEN [workflowRunUid |-> uid]
                            ELSE [id |-> nextId, name |-> name, bus |-> "gA"]
                 st == StreamEvent(bufferedEvents, workflowRunUid, name, payload)
             IN  st[1] \in {bufferedEvents, Append(bufferedEvents, payload)})
    /\ [][\A g \in Gardens, name \in eventNames, uid \in Uids :
             Emit(g, name, uid) =>
                 /\ Len(bufferedEvents') >= Len(bufferedEvents)
                 /\ SubSeq(bufferedEvents', 1, Len(bufferedEvents)) = bufferedEvents
                 /\ Len(bufferedEvents') <= Len(bufferedEvents) + Len(busListeners[g][name])
                 /\ UNCHANGED <<bufferedLogEntries, targets, intervalId, activeTimers, garden,
                                inflight, sent>>]_allVars
    /\ [][LogEmit =>
             /\ Len(bufferedLogEntries') = Len(bufferedLogEntries) + 1
             /\ SubSeq(bufferedLogEntries', 1, Len(bufferedLogEntries)) = bufferedLogEntries
             /\ UNCHANGED <<bufferedEvents, targets, intervalId, activeTimers, garden,
                            inflight, sent>>]_allVars
    /\ [](nextId <= ScopeMaxItems(scope) =>
             /\ ENABLED LogEmit
             /\ \A g \in Gardens, name \in eventNames, uid \in Uids :
                    ENABLED Emit(g, name, uid))

C28_Witness ==
    /\ \E r \in inflight : r.call # 0
    /\ bufferedLogEntries # <<>>
    /\ bufferedEvents # <<>>

\* The messages a step has added on the connection s.
NewMessages(s) == SubSeq(outbox'[s], Len(outbox[s]) + 1, Len(outbox'[s]))

C30_ResponsesStayOnConnection ==
    /\ [][\A s \in SocketIds, req \in Requests :
             (received'[s] # received[s] /\ SocketMessage(s, req)) =>
                 /\ \A t \in SocketIds \ {s} : outbox'[t] = outbox[t]
                 /\ \A c \in pending' \ pending : c.socket = s
                 /\ UNCHANGED <<sockets, serverGarden, gardenAnyListeners,
                                incomingAnyListeners, serversUpdatedOn>>]_allVars
    /\ [][\A c \in pending, outcome \in CommandOutcomes :
             (c.kind = "ws" /\ c \notin pending' /\ CommandDone(c, outcome)) =>
                 /\ \A t \in SocketIds \ {c.socket} : outbox'[t] = outbox[t]
                 /\ sockets[c.socket].state = "open" =>
                        /\ Len(outbox'[c.socket]) = Len(outbox[c.socket]) + 1
                        /\ NewMessages(c.socket)[1].requestId = c.requestId
                        /\ NewMessages(c.socket)[1].type \in {"commandResult", "error"}]_allVars

C30_Witness ==
    /\ \A s \in SocketIds : sockets[s].state = "open" /\ sockets[s].handlers
    /\ Len(outbox[1]) = 1
    /\ outbox[1][1].type = "commandResult"
    /\ outbox[1][1].requestId = "uuid1"
    /\ Len(outbox[2]) = 1
    /\ outbox[2][1].type = "error"
    /\ outbox[2][1].requestId = None
    /\ pending = {}

\* C31: a timer tick while no target is configured or no orchestrator is connected
\* starts no request and leaves both buffers as they are, and connect leaves them
\* as they are too, so what was recorded meanwhile is still buffered in order when
\* a target and an orchestrator are there.
C31_FlushWithoutTargetIsNoOp ==
    /\ [][\A t \in activeTimers :
             ((garden = NoGarden \/ Len(targets) = 0) /\ Tick(t)) =>
                 UNCHANGED <<bufferedEvents, bufferedLogEntries, inflight, sent>>]_allVars
    /\ [][\A g \in Gardens, ts \in TargetLists \cup {Undefined} :
             (garden' = g /\ Connect(g, ts)) =>
                 UNCHANGED <<bufferedEvents, bufferedLogEntries>>]_allVars

\* The timer runs with an orchestrator and without a target, both buffers hold
\* items and nothing has been sent.
C31_Witness ==
    /\ garden # NoGarden
    /\ targets = <<>>
    /\ intervalId \in activeTimers
    /\ Len(bufferedEvents) >= 2
    /\ Len(bufferedLogEntries) >= 1
    /\ StrictlyIncreasing(Ids(bufferedEvents))
    /\ inflight = {}
    /\ \A h \in Hosts, p \in Paths : sent[h][p] = <<>>

\* C32: only setGarden changes the attached orchestrator, and once one is attached
\* the server never is without one again.
C32_OnlySetGardenAttaches ==
    /\ [][serverGarden' # serverGarden =>
             \E g \in Gardens : serverGarden' = g /\ SetGarden(g)]_allVars
    /\ [][serverGarden # NoGarden => serverGarden' # NoGarden]_allVars

C32_Witness ==
    /\ serverGarden = "gB"
    /\ server = "closed"
    /\ \E s \in SocketIds : sockets[s].state = "closed" /\ sockets[s].bus = "gA"
    /\ httpResponse.route = "/events"
    /\ httpResponse.status = 200
    /\ published >= 1

\* C33: when from some point on an orchestrator is connected, a target is
\* configured and the timer is running, then, recording having stopped, the timer
\* ticks empty both buffers for good.
C33_PeriodicFlushDrains ==
    <>[](garden # NoGarden /\ Len(targets) > 0 /\ intervalId \in activeTimers)
        => <>[](bufferedEvents = <<>> /\ bufferedLogEntries = <<>>)

\* C34: whatever is interleaved, the requests a flush starts carry items that no
\* earlier request to any target carried and that are no longer buffered, and the
\* requests it starts for one kind of item all carry the same batch.
C34_NoItemInTwoBatches ==
    [][\A r \in inflight' \ inflight :
          /\ \A h \in Hosts, p \in Paths :
                 Range(Ids(r.data.items)) \cap Range(sent[h][p]) = {}
          /\ Range(Ids(r.data.items))
                 \cap (Range(Ids(bufferedEvents')) \cup Range(Ids(bufferedLogEntries'))) = {}
          /\ \A q \in inflight' \ inflight :
                 q.path = r.path => q.data.items = r.data.items]_allVars

\* The requests of a periodic flush are still out when close() has started the
\* requests of its final flush, to the same target and for both kinds of item.
C34_Witness ==
    /\ \E r, q \in inflight :
           /\ r.call = 0 /\ q.call # 0
           /\ r.host = q.host /\ r.path = "events" /\ q.path = "events"
    /\ \E q \in inflight : q.call # 0 /\ q.path = "log-entries"
    /\ Len(sent["t1"]["events"]) = 2
    /\ Len(sent["t1"]["log-entries"]) = 1

\* C35: every event of an event batch was published by the orchestrator whose
\* project, environment and namespace label the batch.
C35_EventsLabelledByPublisher ==
    \A r \in inflight :
        r.path = "events" =>
            \A i \in 1..Len(r.data.items) : r.data.items[i].bus = r.data.garden

\* C36: an event published by the attached orchestrator is sent exactly once on
\* every open connection that forwards events, whichever orchestrator was attached
\* when the connection was opened.
C36_OpenSocketsFollowAttached ==
    [][\A g \in Gardens, e \in ServerEvents :
          (published' # published /\ g = serverGarden /\ GardenEmit(g, e)) =>
              \A s \in SocketIds :
                  (sockets[s].state = "open" /\ sockets[s].handlers)
                      => outbox'[s] = Append(outbox[s], EventMessage(e, g))]_allVars

\* C37: a log entry that was emitted before the first connect is sent to a target
\* once an orchestrator and a target stay connected with the timer running.
C37_EarlyLogEntriesDelivered ==
    \A id \in 1..MaxItems :
        (<>(garden = NoGarden /\ id \in Range(Ids(bufferedLogEntries)))
           /\ <>[](garden # NoGarden /\ Len(targets) > 0 /\ intervalId \in activeTimers))
            => <>(\E h \in Hosts : id \in Range(sent[h]["log-entries"]))

C39_ToConvert ==
    {tillerList[i].Name : i \in {j \in 1..Len(tillerList) : tillerList[j].Status = "DEPLOYED"}}
        \ helm3List

C39_MigrateToHelm3 ==
    /\ Range(converted) \subseteq C39_ToConvert
    /\ \A i, j \in 1..Len(converted) : converted[i] = converted[j] => i = j
    /\ (migPc = "done" /\ Truthy(res)) => Range(converted) = C39_ToConvert
    /\ ~Truthy(res) => converted = <<>>
    /\ migPc = "done" => tillerRemoved
    /\ tillerRemoved => migPc = "done"

\* The function has returned: of two deployed releases one was converted
\* and the one Helm 3 already had was passed over, and Tiller is removed.
C39_Witness ==
    /\ migPc = "done"
    /\ tillerRemoved
    /\ Len(tillerList) = 2
    /\ \A i \in 1..2 : tillerList[i].Status = "DEPLOYED"
    /\ tillerList[1].Name \in helm3List
    /\ converted = <<tillerList[2].Name>>

\* The listing of Tiller's releases threw although Tiller holds a deployed
\* release: nothing was converted and Tiller is removed.
C39_WitnessListingFails ==
    /\ migPc = "done"
    /\ tillerRemoved
    /\ res = "undefined"
    /\ C39_ToConvert # {}
    /\ converted = <<>>

====
